---- MODULE Spec2Model ----
(***************************************************************************)
(* Model of ChinesePinyinConverter (pinyin_converter.py): the character    *)
(* classifier, the segment scan, the per-segment conversion, the           *)
(* reassembly with its spacing rule, the pronunciation remapper and the    *)
(* diagnostics, as called by one or several callers on one shared          *)
(* converter object.                                                       *)
(*                                                                         *)
(* A string is a sequence of code points; a character is a code point.     *)
(*   32 ' '   49..54 '1'..'6'   65 'A'   66 'B'   97..122 'a'..'z'         *)
(*   20320 U+4F60   22909 U+597D   23433 U+5B89   35831 U+8BF7             *)
(*   38745 U+9759   40959 U+9FFF (no syllable in the table)                *)
(***************************************************************************)
EXTENDS Integers, Sequences, FiniteSets, TLC

VARIABLES _available, pronunciation_map, frame

vars == <<_available, pronunciation_map, frame>>

\* ------------------------------------------------------------------ bounds

\* Longest text drawn exhaustively over Alphabet.
MaxLen == 3

\* Callers of the shared converter in the concurrent specification.
Callers == {1, 2}

\* ------------------------------------------------------- program constants

\* U+4E00, the lower end of the range test of is_chinese_char.
CJK_FIRST == 19968

\* U+9FFF, the upper end of the range test of is_chinese_char.
CJK_LAST == 40959

\* The literal of self.pronunciation_map, as (key, value) pairs.
PronunciationEntries ==
    { <<<<113,105,110,103>>, <<116,115,105,110,103>>>>,            \* qing -> tsing
      <<<<120,105,110,103>>, <<115,105,110,103>>>>,                \* xing -> sing
      <<<<106,105,110,103>>, <<116,115,105,110,103>>>>,            \* jing -> tsing
      <<<<113,105,110>>, <<116,115,105,110>>>>,                    \* qin -> tsin
      <<<<120,105,110>>, <<115,105,110>>>>,                        \* xin -> sin
      <<<<106,105,110>>, <<116,115,105,110>>>>,                    \* jin -> tsin
      <<<<113,105,111,110,103>>, <<116,115,105,111,110,103>>>>,    \* qiong -> tsiong
      <<<<120,105,111,110,103>>, <<115,105,111,110,103>>>>,        \* xiong -> siong
      <<<<106,105,111,110,103>>, <<116,115,105,111,110,103>>>>,    \* jiong -> tsiong
      <<<<113,105,97>>, <<116,115,105,97>>>>,                      \* qia -> tsia
      <<<<120,105,97>>, <<115,105,97>>>>,                          \* xia -> sia
      <<<<106,105,97>>, <<116,115,105,97>>>>,                      \* jia -> tsia
      <<<<113,105,101>>, <<116,115,105,101>>>>,                    \* qie -> tsie
      <<<<120,105,101>>, <<115,105,101>>>>,                        \* xie -> sie
      <<<<106,105,101>>, <<116,115,105,101>>>>,                    \* jie -> tsie
      <<<<113,105,117>>, <<116,115,105,117>>>>,                    \* qiu -> tsiu
      <<<<120,105,117>>, <<115,105,117>>>>,                        \* xiu -> siu
      <<<<106,105,117>>, <<116,115,105,117>>>> }                   \* jiu -> tsiu

\* The dict built by __init__ from that literal.
PronunciationMapLiteral ==
    [k \in {e[1] : e \in PronunciationEntries} |->
        (CHOOSE e \in PronunciationEntries : e[1] = k)[2]]

\* ----------------------------------------------- the transliteration table

\* syllable_of: the external table, one syllable per character it knows.
\* U+9FFF is in the Chinese range and has no entry.
SyllableTable ==
    (20320 :> <<110,105>>)            \* U+4F60 -> ni
 @@ (22909 :> <<104,97,111>>)         \* U+597D -> hao
 @@ (23433 :> <<97,110>>)             \* U+5B89 -> an
 @@ (35831 :> <<113,105,110,103>>)    \* U+8BF7 -> qing
 @@ (38745 :> <<106,105,110,103>>)    \* U+9759 -> jing

\* lazy_pinyin(hans, style=Style.NORMAL): the syllables of the characters of
\* hans that the table knows, in order; a character it does not know yields
\* nothing.
RECURSIVE lazy_pinyin(_)
lazy_pinyin(hans) ==
    IF hans = <<>> THEN <<>>
    ELSE (IF Head(hans) \in DOMAIN SyllableTable
             THEN <<SyllableTable[Head(hans)]>> ELSE <<>>)
         \o lazy_pinyin(Tail(hans))

\* ------------------------------------------------------- built-ins of str

\* str.isalpha of one character: the ASCII letters and the ideographs of
\* U+4E00..U+9FFF are alphabetic; digits, the space and punctuation are not.
isalpha(ch) ==
    \/ ch \in 65..90
    \/ ch \in 97..122
    \/ ch \in 19968..40959

\* sep.join(strs)
RECURSIVE join(_, _)
join(sep, strs) ==
    IF strs = <<>> THEN <<>>
    ELSE IF Len(strs) = 1 THEN strs[1]
    ELSE strs[1] \o sep \o join(sep, Tail(strs))

\* ------------------------------------------------------------ pure methods

\* is_chinese_char with the upper end of the range left out.
is_chinese_char_exclusive(char) == CJK_FIRST <= char /\ char < CJK_LAST

\* is_chinese_char: "一" <= char <= "鿿"
is_chinese_char(char) == CJK_FIRST <= char /\ char <= CJK_LAST

\* convert_pronunciation that never looks the syllable up.
convert_pronunciation_unmapped(pinyin) == pinyin

\* convert_pronunciation: self.pronunciation_map.get(pinyin, pinyin)
convert_pronunciation(pinyin) ==
    IF pinyin \in DOMAIN pronunciation_map THEN pronunciation_map[pinyin] ELSE pinyin

\* detect_chinese_content: any(is_chinese_char(char) for char in text)
detect_chinese_content(t) == \E k \in 1..Len(t) : is_chinese_char(t[k])

\* ------------------------------------------------------------------ frames

\* The locals of one call in progress: the function called (op), its argument
\* (text), the position in its code (pc), the index of the running for loop
\* (i), its local variables, its return value (ret) and the number of calls
\* of lazy_pinyin it has made (lookups).
NewFrame(o, t) ==
    [pc |-> "idle", op |-> o, text |-> t, i |-> 1,
     segments |-> <<>>, current_segment |-> <<>>, current_is_chinese |-> FALSE,
     result_parts |-> <<>>, result |-> <<>>, ret |-> <<>>, lookups |-> 0]

\* return value
Return(f, value) == [f EXCEPT !.pc = "done", !.ret = value]

\* an exception leaves the function
Raise(f, exc) == [f EXCEPT !.pc = "error", !.ret = exc]

\* --------------------------------------------- chinese_to_pinyin (compact)

\* chinese_to_pinyin, up to the loop: the fallback, then result = [].
chinese_to_pinyin(t) ==
    IF ~_available
        THEN Return(NewFrame("chinese_to_pinyin", t), t)
        ELSE [NewFrame("chinese_to_pinyin", t) EXCEPT !.pc = "loop"]

\* AppendPinyin without its else branch: a character that is not Chinese is
\* not appended.
AppendPinyinDropsOther(f) ==
    LET char == f.text[f.i] IN
    IF is_chinese_char(char)
        THEN LET pinyin_list == lazy_pinyin(<<char>>) IN
             [f EXCEPT !.result = IF pinyin_list # <<>>
                                     THEN Append(@, pinyin_list[1])
                                     ELSE @,
                       !.lookups = @ + 1,
                       !.i = @ + 1]
        ELSE [f EXCEPT !.i = @ + 1]

\* One iteration of "for char in text" of chinese_to_pinyin. Without the
\* import, self.lazy_pinyin was never set and the call raises.
AppendPinyin(f) ==
    LET char == f.text[f.i] IN
    IF is_chinese_char(char)
        THEN IF ~_available
                THEN Raise(f, "AttributeError")
                ELSE LET pinyin_list == lazy_pinyin(<<char>>) IN
                     [f EXCEPT !.result = IF pinyin_list # <<>>
                                             THEN Append(@, pinyin_list[1])
                                             ELSE @,
                               !.lookups = @ + 1,
                               !.i = @ + 1]
        ELSE [f EXCEPT !.result = Append(@, <<char>>), !.i = @ + 1]

\* return "".join(result)
JoinResult(f) == Return(f, join(<<>>, f.result))

\* ------------------------------------- chinese_to_pinyin_with_pronunciation

\* chinese_to_pinyin_with_pronunciation, up to the loop.
chinese_to_pinyin_with_pronunciation(t) ==
    IF ~_available
        THEN Return(NewFrame("chinese_to_pinyin_with_pronunciation", t), t)
        ELSE [NewFrame("chinese_to_pinyin_with_pronunciation", t) EXCEPT !.pc = "loop"]

\* AppendConvertedPinyin that appends a Chinese character the table does not
\* know instead of skipping it.
AppendConvertedPinyinKeepsUnknown(f) ==
    LET char == f.text[f.i] IN
    IF is_chinese_char(char)
        THEN LET pinyin_list == lazy_pinyin(<<char>>) IN
             [f EXCEPT !.result =
                           IF pinyin_list # <<>>
                               THEN Append(@, convert_pronunciation(pinyin_list[1]))
                               ELSE Append(@, <<char>>),
                       !.lookups = @ + 1,
                       !.i = @ + 1]
        ELSE [f EXCEPT !.result = Append(@, <<char>>), !.i = @ + 1]

\* One iteration of "for char in text" of chinese_to_pinyin_with_pronunciation.
AppendConvertedPinyin(f) ==
    LET char == f.text[f.i] IN
    IF is_chinese_char(char)
        THEN IF ~_available
                THEN Raise(f, "AttributeError")
                ELSE LET pinyin_list == lazy_pinyin(<<char>>) IN
                     [f EXCEPT !.result =
                                   IF pinyin_list # <<>>
                                       THEN Append(@, convert_pronunciation(pinyin_list[1]))
                                       ELSE @,
                               !.lookups = @ + 1,
                               !.i = @ + 1]
        ELSE [f EXCEPT !.result = Append(@, <<char>>), !.i = @ + 1]

\* ------------------------------------------ chinese_to_pinyin_with_spaces

\* chinese_to_pinyin_with_spaces, up to the scan: the fallback, then
\* segments = [], current_segment = "", current_is_chinese = False.
chinese_to_pinyin_with_spaces(t) ==
    IF ~_available
        THEN Return(NewFrame("chinese_to_pinyin_with_spaces", t), t)
        ELSE [NewFrame("chinese_to_pinyin_with_spaces", t) EXCEPT !.pc = "scan"]

\* chinese_to_pinyin_with_spaces_and_pronunciation without its fallback.
chinese_to_pinyin_with_spaces_and_pronunciation_no_fallback(t) ==
    [NewFrame("chinese_to_pinyin_with_spaces_and_pronunciation", t) EXCEPT !.pc = "scan"]

\* chinese_to_pinyin_with_spaces_and_pronunciation, up to the scan.
chinese_to_pinyin_with_spaces_and_pronunciation(t) ==
    IF ~_available
        THEN Return(NewFrame("chinese_to_pinyin_with_spaces_and_pronunciation", t), t)
        ELSE [NewFrame("chinese_to_pinyin_with_spaces_and_pronunciation", t)
                 EXCEPT !.pc = "scan"]

\* ScanChar that closes a segment and opens an empty one, losing the character
\* at the boundary.
ScanCharLosesBoundary(f) ==
    LET char == f.text[f.i]
        is_chinese == is_chinese_char(char)
    IN  IF f.current_segment = <<>>
            THEN [f EXCEPT !.current_segment = <<char>>,
                           !.current_is_chinese = is_chinese,
                           !.i = @ + 1]
        ELSE IF is_chinese = f.current_is_chinese
            THEN [f EXCEPT !.current_segment = Append(@, char), !.i = @ + 1]
        ELSE [f EXCEPT !.segments =
                           Append(@, <<f.current_segment, f.current_is_chinese>>),
                       !.current_segment = <<>>,
                       !.current_is_chinese = is_chinese,
                       !.i = @ + 1]

\* One iteration of the segmenting "for char in text" (the same statements in
\* both spaced functions).
ScanChar(f) ==
    LET char == f.text[f.i]
        is_chinese == is_chinese_char(char)
    IN  IF f.current_segment = <<>>
            THEN [f EXCEPT !.current_segment = <<char>>,
                           !.current_is_chinese = is_chinese,
                           !.i = @ + 1]
        ELSE IF is_chinese = f.current_is_chinese
            THEN [f EXCEPT !.current_segment = Append(@, char), !.i = @ + 1]
        ELSE [f EXCEPT !.segments =
                           Append(@, <<f.current_segment, f.current_is_chinese>>),
                       !.current_segment = <<char>>,
                       !.current_is_chinese = is_chinese,
                       !.i = @ + 1]

\* After the scan: "if current_segment: segments.append(...)", then
\* result_parts = [].
CloseLastSegment(f) ==
    [f EXCEPT !.segments = IF f.current_segment # <<>>
                              THEN Append(@, <<f.current_segment, f.current_is_chinese>>)
                              ELSE @,
              !.pc = "convert",
              !.i = 1]

\* ConvertSegment that keeps the first syllable of the segment only, as the
\* compact loop does for its one character.
ConvertSegmentFirstSyllable(f) ==
    LET segment == f.segments[f.i][1]
        is_chinese == f.segments[f.i][2]
    IN  IF is_chinese
            THEN LET pinyin_list == lazy_pinyin(segment) IN
                 [f EXCEPT !.result_parts =
                               Append(@, IF pinyin_list # <<>> THEN pinyin_list[1]
                                                                ELSE <<>>),
                           !.lookups = @ + 1,
                           !.i = @ + 1]
            ELSE [f EXCEPT !.result_parts = Append(@, segment), !.i = @ + 1]

\* One iteration of "for segment, is_chinese in segments" of
\* chinese_to_pinyin_with_spaces.
ConvertSegment(f) ==
    LET segment == f.segments[f.i][1]
        is_chinese == f.segments[f.i][2]
    IN  IF is_chinese
            THEN IF ~_available
                    THEN Raise(f, "AttributeError")
                    ELSE LET pinyin_list == lazy_pinyin(segment) IN
                         [f EXCEPT !.result_parts = Append(@, join(<<32>>, pinyin_list)),
                                   !.lookups = @ + 1,
                                   !.i = @ + 1]
            ELSE [f EXCEPT !.result_parts = Append(@, segment), !.i = @ + 1]

\* One iteration of "for segment, is_chinese in segments" of
\* chinese_to_pinyin_with_spaces_and_pronunciation.
ConvertSegmentPronunciation(f) ==
    LET segment == f.segments[f.i][1]
        is_chinese == f.segments[f.i][2]
    IN  IF is_chinese
            THEN IF ~_available
                    THEN Raise(f, "AttributeError")
                    ELSE LET pinyin_list == lazy_pinyin(segment)
                             converted_pinyin ==
                                 [k \in 1..Len(pinyin_list) |->
                                     convert_pronunciation(pinyin_list[k])]
                         IN  [f EXCEPT !.result_parts =
                                           Append(@, join(<<32>>, converted_pinyin)),
                                       !.lookups = @ + 1,
                                       !.i = @ + 1]
            ELSE [f EXCEPT !.result_parts = Append(@, segment), !.i = @ + 1]

\* After the conversion loop: result = "".
StartJoin(f) == [f EXCEPT !.result = <<>>, !.pc = "join", !.i = 1]

\* NeedsSpace with "or" between the two isalpha tests.
NeedsSpaceEither(prev_part, part) ==
    /\ part # <<>>
    /\ prev_part # <<>>
    /\ (isalpha(part[1]) \/ isalpha(prev_part[Len(prev_part)]))

\* The test of the reassembly: "part and prev_part and part[0].isalpha() and
\* prev_part[-1].isalpha()".
NeedsSpace(prev_part, part) ==
    /\ part # <<>>
    /\ prev_part # <<>>
    /\ isalpha(part[1])
    /\ isalpha(prev_part[Len(prev_part)])

\* One iteration of "for i, part in enumerate(result_parts)" (the same
\* statements in both spaced functions); f.i is i + 1.
JoinPart(f) ==
    LET part == f.result_parts[f.i]
        spaced == IF f.i > 1 /\ NeedsSpace(f.result_parts[f.i - 1], part)
                      THEN f.result \o <<32>>
                      ELSE f.result
    IN  [f EXCEPT !.result = spaced \o part, !.i = @ + 1]

\* return result
ReturnResult(f) == Return(f, f.result)

\* ------------------------------------------------------------- diagnostics

\* a / b of two ints: a float, or ZeroDivisionError. The float is kept as the
\* exact fraction num / den.
TrueDiv(a, b) == [ok |-> b # 0, num |-> a, den |-> b]

\* ChinesePercentage without "if text else 0".
ChinesePercentageUnguarded(t, chinese_chars) ==
    LET q == TrueDiv(Len(chinese_chars), Len(t)) IN
    [ok |-> q.ok, num |-> q.num * 100, den |-> q.den]

\* "len(chinese_chars) / len(text) * 100 if text else 0"
ChinesePercentage(t, chinese_chars) ==
    IF t # <<>>
        THEN LET q == TrueDiv(Len(chinese_chars), Len(t)) IN
             [ok |-> q.ok, num |-> q.num * 100, den |-> q.den]
        ELSE [ok |-> TRUE, num |-> 0, den |-> 1]

\* get_conversion_info: the dict it returns, or the exception of the division.
get_conversion_info(t) ==
    LET chinese_chars == SelectSeq(t, is_chinese_char)
        percentage == ChinesePercentage(t, chinese_chars)
    IN  IF ~percentage.ok
            THEN Raise(NewFrame("get_conversion_info", t), "ZeroDivisionError")
            ELSE Return(NewFrame("get_conversion_info", t),
                        [has_chinese |-> Len(chinese_chars) > 0,
                         chinese_count |-> Len(chinese_chars),
                         total_length |-> Len(t),
                         chinese_percentage |-> [num |-> percentage.num,
                                                 den |-> percentage.den],
                         converter_available |-> _available,
                         pronunciation_map_size |->
                             Cardinality(DOMAIN pronunciation_map)])

\* ------------------------------------------------------ a call, step by step

\* The statement a frame is at, executed.
Step(f) ==
    CASE f.pc = "loop" /\ f.i <= Len(f.text) ->
            IF f.op = "chinese_to_pinyin" THEN AppendPinyin(f)
                                          ELSE AppendConvertedPinyin(f)
      [] f.pc = "loop" /\ f.i > Len(f.text) -> JoinResult(f)
      [] f.pc = "scan" /\ f.i <= Len(f.text) -> ScanChar(f)
      [] f.pc = "scan" /\ f.i > Len(f.text) -> CloseLastSegment(f)
      [] f.pc = "convert" /\ f.i <= Len(f.segments) ->
            IF f.op = "chinese_to_pinyin_with_spaces"
                THEN ConvertSegment(f)
                ELSE ConvertSegmentPronunciation(f)
      [] f.pc = "convert" /\ f.i > Len(f.segments) -> StartJoin(f)
      [] f.pc = "join" /\ f.i <= Len(f.result_parts) -> JoinPart(f)
      [] f.pc = "join" /\ f.i > Len(f.result_parts) -> ReturnResult(f)
      [] OTHER -> f

\* A frame run to its return or its exception.
RECURSIVE Run(_)
Run(f) == IF f.pc \in {"idle", "done", "error"} THEN f ELSE Run(Step(f))

\* ------------------------------------------------------------------ inputs

\* The characters of the texts drawn exhaustively: ' ', '1', 'A', U+4F60,
\* U+8BF7, and U+9FFF, which is Chinese and has no syllable.
Alphabet == {32, 49, 65, 20320, 35831, 40959}

\* "A你好B", "123 你好 456", "请安静", "qing请"
ExampleTexts ==
    { <<65, 20320, 22909, 66>>,
      <<49, 50, 51, 32, 20320, 22909, 32, 52, 53, 54>>,
      <<35831, 23433, 38745>>,
      <<113, 105, 110, 103, 35831>> }

\* Every text of at most MaxLen characters of Alphabet, and the examples.
Texts == UNION {[1..n -> Alphabet] : n \in 0..MaxLen} \cup ExampleTexts

\* The texts of the concurrent callers: "", "A你", "请鿿1", "你 请".
ConcTexts ==
    { <<>>, <<65, 20320>>, <<35831, 40959, 49>>, <<20320, 32, 35831>> }

\* The characters given to is_chinese_char alone: Alphabet and the characters
\* around the ends of the range, U+4DFF, U+4E00, U+9FA1, U+9FFF, U+A000.
Chars == Alphabet \cup {19967, 19968, 40865, 40959, 40960}

\* The syllables given to convert_pronunciation alone: the keys of the map,
\* the syllables of the table, "tsing" and "".
Syllables ==
    {e[1] : e \in PronunciationEntries}
        \cup {SyllableTable[ch] : ch \in DOMAIN SyllableTable}
        \cup {<<116,115,105,110,103>>, <<>>}

\* ----------------------------------------------------------------- actions

\* __init__: the import of pypinyin succeeds or fails; the map is the literal.
Init ==
    /\ _available \in BOOLEAN
    /\ pronunciation_map = PronunciationMapLiteral
    /\ frame = [c \in Callers |-> NewFrame("none", <<>>)]

\* Caller c's frame becomes f; no method assigns to self.
Update(c, f) ==
    /\ frame' = [frame EXCEPT ![c] = f]
    /\ UNCHANGED <<_available, pronunciation_map>>

\* Caller c is not inside a call.
CanCall(c) == frame[c].pc = "idle"

\* The caller takes the return value (or the exception) and goes on.
Finish(c) ==
    /\ frame[c].pc \in {"done", "error"}
    /\ Update(c, NewFrame("none", <<>>))

\* A caller calls a method: the conversion functions run up to their first
\* loop, the other methods to their return.
CallChineseToPinyin(c, t) == CanCall(c) /\ Update(c, chinese_to_pinyin(t))

CallWithPronunciation(c, t) ==
    CanCall(c) /\ Update(c, chinese_to_pinyin_with_pronunciation(t))

CallWithSpaces(c, t) == CanCall(c) /\ Update(c, chinese_to_pinyin_with_spaces(t))

CallWithSpacesAndPronunciation(c, t) ==
    CanCall(c) /\ Update(c, chinese_to_pinyin_with_spaces_and_pronunciation(t))

CallGetConversionInfo(c, t) == CanCall(c) /\ Update(c, get_conversion_info(t))

CallDetectChineseContent(c, t) ==
    /\ CanCall(c)
    /\ Update(c, Return(NewFrame("detect_chinese_content", t), detect_chinese_content(t)))

CallIsChineseChar(c, ch) ==
    /\ CanCall(c)
    /\ Update(c, Return(NewFrame("is_chinese_char", <<ch>>), is_chinese_char(ch)))

\* convert_pronunciation that stores the syllables it did not find, as
\* self.pronunciation_map.setdefault(pinyin, pinyin) would.
CallConvertPronunciationCaching(c, p) ==
    /\ CanCall(c)
    /\ frame' = [frame EXCEPT ![c] = Return(NewFrame("convert_pronunciation", p),
                                            convert_pronunciation(p))]
    /\ pronunciation_map' = IF p \in DOMAIN pronunciation_map
                                THEN pronunciation_map
                                ELSE pronunciation_map @@ (p :> p)
    /\ UNCHANGED _available

CallConvertPronunciation(c, p) ==
    /\ CanCall(c)
    /\ Update(c, Return(NewFrame("convert_pronunciation", p), convert_pronunciation(p)))

\* The statements of the four conversion functions, one at a time.
DoAppendPinyin(c) ==
    /\ frame[c].pc = "loop" /\ frame[c].i <= Len(frame[c].text)
    /\ frame[c].op = "chinese_to_pinyin"
    /\ Update(c, AppendPinyin(frame[c]))

DoAppendConvertedPinyin(c) ==
    /\ frame[c].pc = "loop" /\ frame[c].i <= Len(frame[c].text)
    /\ frame[c].op = "chinese_to_pinyin_with_pronunciation"
    /\ Update(c, AppendConvertedPinyin(frame[c]))

DoJoinResult(c) ==
    /\ frame[c].pc = "loop" /\ frame[c].i > Len(frame[c].text)
    /\ Update(c, JoinResult(frame[c]))

DoScanChar(c) ==
    /\ frame[c].pc = "scan" /\ frame[c].i <= Len(frame[c].text)
    /\ Update(c, ScanChar(frame[c]))

DoCloseLastSegment(c) ==
    /\ frame[c].pc = "scan" /\ frame[c].i > Len(frame[c].text)
    /\ Update(c, CloseLastSegment(frame[c]))

DoConvertSegment(c) ==
    /\ frame[c].pc = "convert" /\ frame[c].i <= Len(frame[c].segments)
    /\ frame[c].op = "chinese_to_pinyin_with_spaces"
    /\ Update(c, ConvertSegment(frame[c]))

DoConvertSegmentPronunciation(c) ==
    /\ frame[c].pc = "convert" /\ frame[c].i <= Len(frame[c].segments)
    /\ frame[c].op = "chinese_to_pinyin_with_spaces_and_pronunciation"
    /\ Update(c, ConvertSegmentPronunciation(frame[c]))

DoStartJoin(c) ==
    /\ frame[c].pc = "convert" /\ frame[c].i > Len(frame[c].segments)
    /\ Update(c, StartJoin(frame[c]))

DoJoinPart(c) ==
    /\ frame[c].pc = "join" /\ frame[c].i <= Len(frame[c].result_parts)
    /\ Update(c, JoinPart(frame[c]))

DoReturnResult(c) ==
    /\ frame[c].pc = "join" /\ frame[c].i > Len(frame[c].result_parts)
    /\ Update(c, ReturnResult(frame[c]))

\* ---------------------------------------------------------- specifications

\* One caller: every function on every text of Texts.
Next ==
    \/ \E t \in Texts : CallChineseToPinyin(1, t)
    \/ \E t \in Texts : CallWithPronunciation(1, t)
    \/ \E t \in Texts : CallWithSpaces(1, t)
    \/ \E t \in Texts : CallWithSpacesAndPronunciation(1, t)
    \/ \E t \in Texts : CallGetConversionInfo(1, t)
    \/ \E t \in Texts : CallDetectChineseContent(1, t)
    \/ \E ch \in Chars : CallIsChineseChar(1, ch)
    \/ \E p \in Syllables : CallConvertPronunciation(1, p)
    \/ DoAppendPinyin(1)
    \/ DoAppendConvertedPinyin(1)
    \/ DoJoinResult(1)
    \/ DoScanChar(1)
    \/ DoCloseLastSegment(1)
    \/ DoConvertSegment(1)
    \/ DoConvertSegmentPronunciation(1)
    \/ DoStartJoin(1)
    \/ DoJoinPart(1)
    \/ DoReturnResult(1)
    \/ Finish(1)

Spec == Init /\ [][Next]_vars

\* Several callers on one converter, their statements interleaved.
NextConc ==
    \E c \in Callers :
        \/ \E t \in ConcTexts : CallChineseToPinyin(c, t)
        \/ \E t \in ConcTexts : CallWithPronunciation(c, t)
        \/ \E t \in ConcTexts : CallWithSpaces(c, t)
        \/ \E t \in ConcTexts : CallWithSpacesAndPronunciation(c, t)
        \/ \E t \in ConcTexts : CallGetConversionInfo(c, t)
        \/ \E t \in ConcTexts : CallDetectChineseContent(c, t)
        \/ \E ch \in Chars : CallIsChineseChar(c, ch)
        \/ \E p \in Syllables : CallConvertPronunciation(c, p)
        \/ DoAppendPinyin(c)
        \/ DoAppendConvertedPinyin(c)
        \/ DoJoinResult(c)
        \/ DoScanChar(c)
        \/ DoCloseLastSegment(c)
        \/ DoConvertSegment(c)
        \/ DoConvertSegmentPronunciation(c)
        \/ DoStartJoin(c)
        \/ DoJoinPart(c)
        \/ DoReturnResult(c)
        \/ Finish(c)

SpecConc == Init /\ [][NextConc]_vars

\* ------------------------------------------------- vocabulary of the claims

\* A code point of U+4E00..U+9FFF.
InCJK(ch) == ch \in 19968..40959

CompactOps == {"chinese_to_pinyin", "chinese_to_pinyin_with_pronunciation"}

SpacedOps ==
    {"chinese_to_pinyin_with_spaces", "chinese_to_pinyin_with_spaces_and_pronunciation"}

PronunciationOps ==
    {"chinese_to_pinyin_with_pronunciation",
     "chinese_to_pinyin_with_spaces_and_pronunciation"}

Conversions == CompactOps \cup SpacedOps

\* The frame a call of function o on t starts with.
Entry(o, t) ==
    CASE o = "chinese_to_pinyin" -> chinese_to_pinyin(t)
      [] o = "chinese_to_pinyin_with_pronunciation" ->
            chinese_to_pinyin_with_pronunciation(t)
      [] o = "chinese_to_pinyin_with_spaces" -> chinese_to_pinyin_with_spaces(t)
      [] o = "chinese_to_pinyin_with_spaces_and_pronunciation" ->
            chinese_to_pinyin_with_spaces_and_pronunciation(t)
      [] o = "get_conversion_info" -> get_conversion_info(t)
      [] o = "detect_chinese_content" ->
            Return(NewFrame(o, t), detect_chinese_content(t))
      [] o = "is_chinese_char" -> Return(NewFrame(o, t), is_chinese_char(t[1]))
      [] o = "convert_pronunciation" -> Return(NewFrame(o, t), convert_pronunciation(t))

\* The strings of a list, one after the other.
RECURSIVE Concat(_)
Concat(strs) == IF strs = <<>> THEN <<>> ELSE Head(strs) \o Concat(Tail(strs))

\* The strings of a list with one space between neighbours.
RECURSIVE SpaceSeparated(_)
SpaceSeparated(strs) ==
    IF strs = <<>> THEN <<>>
    ELSE IF Len(strs) = 1 THEN strs[1]
    ELSE SpaceSeparated(SubSeq(strs, 1, Len(strs) - 1)) \o <<32>> \o strs[Len(strs)]

NotSpace(ch) == ch # 32

\* s without its spaces.
StripSpaces(s) == SelectSeq(s, NotSpace)

\* The words of s: its maximal runs of characters other than the space.
RECURSIVE Words(_)
Words(s) ==
    IF s = <<>> THEN <<>>
    ELSE IF Head(s) = 32 THEN Words(Tail(s))
    ELSE LET n == CHOOSE m \in 1..Len(s) :
                     /\ \A j \in 1..m : s[j] # 32
                     /\ m = Len(s) \/ s[m + 1] = 32
         IN  <<SubSeq(s, 1, n)>> \o Words(SubSeq(s, n + 1, Len(s)))

\* The value the literal of the pronunciation map gives a syllable.
Remapped(p) ==
    IF \E e \in PronunciationEntries : e[1] = p
        THEN (CHOOSE e \in PronunciationEntries : e[1] = p)[2]
        ELSE p

\* What one character contributes: its syllable (remapped when pron) for a
\* Chinese character the table knows, nothing for one it does not know, the
\* character itself otherwise.
Contribution(ch, pron) ==
    IF InCJK(ch)
        THEN IF ch \in DOMAIN SyllableTable
                THEN <<IF pron THEN Remapped(SyllableTable[ch]) ELSE SyllableTable[ch]>>
                ELSE <<>>
        ELSE <<<<ch>>>>

\* The contributions of the characters of t, in order.
RECURSIVE Contributions(_, _)
Contributions(t, pron) ==
    IF t = <<>> THEN <<>>
    ELSE Contribution(Head(t), pron) \o Contributions(Tail(t), pron)

\* A finished call of function o by caller c, with the table available.
Converted(c, o) ==
    /\ _available
    /\ frame[c].pc = "done"
    /\ frame[c].op = o

\* ------------------------------------------------------------------ claims

NoChinese(t) == \A k \in 1..Len(t) : ~InCJK(t[k])

\* C1: a text with no character of U+4E00..U+9FFF, the empty text included, is
\* returned unchanged by each of the four conversion functions, and none of
\* them raises on it.
C1_NoChineseUnchanged ==
    \A c \in Callers :
        (frame[c].op \in Conversions /\ NoChinese(frame[c].text)) =>
            /\ frame[c].pc # "error"
            /\ frame[c].pc = "done" => frame[c].ret = frame[c].text

\* C1 happens: with the table available, the spaced function has returned
\* "A 1", a text of a letter, a space and a digit.
C1_Witness ==
    /\ Converted(1, "chinese_to_pinyin_with_spaces")
    /\ frame[1].text = <<65, 32, 49>>
    /\ frame[1].ret = <<65, 32, 49>>

\* C2: without the table, every conversion function has returned its input at
\* once, with no exception and no call of lazy_pinyin, whatever the input; and
\* get_conversion_info reports converter_available as the flag itself.
C2_FallbackIdentity ==
    \A c \in Callers :
        /\ (~_available /\ frame[c].op \in Conversions) =>
               /\ frame[c].pc = "done"
               /\ frame[c].ret = frame[c].text
               /\ frame[c].lookups = 0
        /\ (frame[c].op = "get_conversion_info" /\ frame[c].pc = "done") =>
               frame[c].ret.converter_available = _available

\* C2 happens: without the table, the spaced pronunciation function was given
\* a text with Chinese characters and returned it.
C2_Witness ==
    /\ ~_available
    /\ frame[1].pc = "done"
    /\ frame[1].op = "chinese_to_pinyin_with_spaces_and_pronunciation"
    /\ frame[1].text = <<35831, 23433, 38745>>
    /\ frame[1].ret = <<35831, 23433, 38745>>

\* The (content, is_chinese) pairs segs are maximal same-classification runs:
\* none is empty, each holds characters of its own classification only, and
\* neighbours differ in classification.
MaximalRuns(segs) ==
    /\ \A k \in 1..Len(segs) :
           /\ segs[k][1] # <<>>
           /\ \A j \in 1..Len(segs[k][1]) : InCJK(segs[k][1][j]) = segs[k][2]
    /\ \A k \in 1..(Len(segs) - 1) : segs[k][2] # segs[k + 1][2]

\* The closed segments of a frame followed by its open segment, if any.
WithOpenSegment(f) ==
    IF f.current_segment = <<>>
        THEN f.segments
        ELSE Append(f.segments, <<f.current_segment, f.current_is_chinese>>)

\* C3: during the scan the closed segments and the open one are maximal runs
\* whose contents concatenate to the prefix consumed so far; after the scan the
\* segments are the maximal runs of the whole text, their contents concatenate
\* to the text, and the empty text has no segment.
C3_SegmentsPartitionText ==
    \A c \in Callers :
        LET f == frame[c] IN
        /\ (f.op \in SpacedOps /\ f.pc = "scan") =>
               /\ MaximalRuns(WithOpenSegment(f))
               /\ Concat([k \in 1..Len(WithOpenSegment(f)) |-> WithOpenSegment(f)[k][1]])
                      = SubSeq(f.text, 1, f.i - 1)
        /\ (f.op \in SpacedOps /\ (f.pc \in {"convert", "join"} \/ Converted(c, f.op))) =>
               /\ MaximalRuns(f.segments)
               /\ Concat([k \in 1..Len(f.segments) |-> f.segments[k][1]]) = f.text
               /\ f.text = <<>> => f.segments = <<>>

\* C3 happens: the scan of "A你1" has closed two segments and holds the third
\* one open.
C3_Witness ==
    /\ frame[1].op = "chinese_to_pinyin_with_spaces"
    /\ frame[1].pc = "scan"
    /\ frame[1].text = <<65, 20320, 49>>
    /\ Len(frame[1].segments) = 2
    /\ frame[1].current_segment = <<49>>

\* The separator the spacing rule puts between two rendered segments: one space
\* when the last character of the first and the first character of the second
\* are both alphabetic, nothing otherwise.
Separator(prev, part) ==
    IF /\ prev # <<>>
       /\ part # <<>>
       /\ isalpha(prev[Len(prev)])
       /\ isalpha(part[1])
        THEN <<32>>
        ELSE <<>>

\* Rendered segments joined by that rule.
RECURSIVE Reassembled(_)
Reassembled(parts) ==
    IF parts = <<>> THEN <<>>
    ELSE IF Len(parts) = 1 THEN parts[1]
    ELSE Reassembled(SubSeq(parts, 1, Len(parts) - 1))
             \o Separator(parts[Len(parts) - 1], parts[Len(parts)])
             \o parts[Len(parts)]

\* C4: in both spaced functions the result under construction is the rendered
\* segments joined so far by the spacing rule, and the value returned is all of
\* them joined by it; "A你好B" gives "A ni hao B" and "123 你好 456" gives
\* "123 ni hao 456".
C4_SpacingRule ==
    \A c \in Callers :
        LET f == frame[c] IN
        /\ (f.op \in SpacedOps /\ f.pc = "join") =>
               f.result = Reassembled(SubSeq(f.result_parts, 1, f.i - 1))
        /\ (f.op \in SpacedOps /\ Converted(c, f.op)) =>
               f.ret = Reassembled(f.result_parts)
        /\ (Converted(c, "chinese_to_pinyin_with_spaces")
               /\ f.text = <<65, 20320, 22909, 66>>) =>
               f.ret = <<65, 32, 110, 105, 32, 104, 97, 111, 32, 66>>
        /\ (Converted(c, "chinese_to_pinyin_with_spaces")
               /\ f.text = <<49, 50, 51, 32, 20320, 22909, 32, 52, 53, 54>>) =>
               f.ret = <<49, 50, 51, 32, 110, 105, 32, 104, 97, 111, 32, 52, 53, 54>>

\* C4 happens: "A你1" was returned as "A ni1", a space at the boundary of two
\* letters and none at the boundary of a letter and a digit.
C4_Witness ==
    /\ Converted(1, "chinese_to_pinyin_with_spaces")
    /\ frame[1].text = <<65, 20320, 49>>
    /\ frame[1].result_parts = << <<65>>, <<110, 105>>, <<49>> >>
    /\ frame[1].ret = <<65, 32, 110, 105, 49>>

\* C5: with the table available, a compact function returns the contributions
\* of the characters in order, where a Chinese character without a syllable
\* contributes nothing; a spaced function renders a Chinese segment as the
\* contributions of its characters, one space between them, keeps the other
\* segments, and returns, spaces aside, the same contributions; no character of
\* U+4E00..U+9FFF is left in the output and no function raises.
C5_UnknownCharactersSkipped ==
    \A c \in Callers :
        LET f == frame[c]
            pron == f.op \in PronunciationOps
        IN  /\ (_available /\ f.op \in Conversions) => f.pc # "error"
            /\ (f.op \in CompactOps /\ Converted(c, f.op)) =>
                   f.ret = Concat(Contributions(f.text, pron))
            /\ (f.op \in SpacedOps /\ Converted(c, f.op)) =>
                   /\ Len(f.result_parts) = Len(f.segments)
                   /\ \A k \in 1..Len(f.segments) :
                          f.result_parts[k] =
                              IF f.segments[k][2]
                                  THEN SpaceSeparated(Contributions(f.segments[k][1], pron))
                                  ELSE f.segments[k][1]
                   /\ StripSpaces(f.ret) = StripSpaces(Concat(Contributions(f.text, pron)))
            /\ (f.op \in Conversions /\ Converted(c, f.op)) =>
                   \A j \in 1..Len(f.ret) : ~InCJK(f.ret[j])

\* C5 happens: "A鿿你" was returned as "A ni" by the spaced function, U+9FFF
\* having no syllable.
C5_Witness ==
    /\ Converted(1, "chinese_to_pinyin_with_spaces")
    /\ frame[1].text = <<65, 40959, 20320>>
    /\ frame[1].ret = <<65, 32, 110, 105>>

\* The characters of t that contribute a string: all but the Chinese
\* characters the table does not know.
Contributes(ch) == ~InCJK(ch) \/ ch \in DOMAIN SyllableTable

\* C6: convert_pronunciation returns the value of the literal map for a key and
\* its argument otherwise. The compact pronunciation function returns what
\* chinese_to_pinyin builds for the same text with the string of each Chinese
\* character remapped and the other strings kept. The spaced pronunciation
\* function finds the segments chinese_to_pinyin_with_spaces finds, renders a
\* Chinese segment as the remapped words of that function's rendering, keeps
\* the other segments, and puts spaces between segments where that function
\* does. "请" gives "tsing" and "请安静" gives "tsing an tsing".
C6_PronunciationRemap ==
    \A c \in Callers :
        LET f == frame[c] IN
        /\ (f.op = "convert_pronunciation") =>
               /\ f.pc = "done"
               /\ f.ret = Remapped(f.text)
        /\ Converted(c, "chinese_to_pinyin_with_pronunciation") =>
               LET g == Run(chinese_to_pinyin(f.text))
                   kept == SelectSeq(f.text, Contributes)
               IN  /\ Len(g.result) = Len(kept)
                   /\ f.ret = Concat([k \in 1..Len(kept) |->
                                         IF InCJK(kept[k]) THEN Remapped(g.result[k])
                                                            ELSE g.result[k]])
        /\ Converted(c, "chinese_to_pinyin_with_spaces_and_pronunciation") =>
               LET g == Run(chinese_to_pinyin_with_spaces(f.text)) IN
               /\ f.segments = g.segments
               /\ Len(f.result_parts) = Len(g.result_parts)
               /\ \A k \in 1..Len(g.result_parts) :
                      f.result_parts[k] =
                          IF g.segments[k][2]
                              THEN LET words == Words(g.result_parts[k]) IN
                                   SpaceSeparated([j \in 1..Len(words) |->
                                                      Remapped(words[j])])
                              ELSE g.result_parts[k]
               /\ \A k \in 2..Len(g.result_parts) :
                      Separator(f.result_parts[k - 1], f.result_parts[k])
                          = Separator(g.result_parts[k - 1], g.result_parts[k])
               /\ Len(f.ret) - Len(Concat(f.result_parts))
                      = Len(g.ret) - Len(Concat(g.result_parts))
        /\ (Converted(c, "chinese_to_pinyin_with_pronunciation")
               /\ f.text = <<35831>>) =>
               f.ret = <<116, 115, 105, 110, 103>>
        /\ (Converted(c, "chinese_to_pinyin_with_spaces_and_pronunciation")
               /\ f.text = <<35831, 23433, 38745>>) =>
               f.ret = <<116, 115, 105, 110, 103, 32, 97, 110, 32,
                         116, 115, 105, 110, 103>>

\* C6 happens: "qing请" was returned as "qing tsing" by the spaced
\* pronunciation function, the syllable remapped and the Latin text kept.
C6_Witness ==
    /\ Converted(1, "chinese_to_pinyin_with_spaces_and_pronunciation")
    /\ frame[1].text = <<113, 105, 110, 103, 35831>>
    /\ frame[1].ret = <<113, 105, 110, 103, 32, 116, 115, 105, 110, 103>>

\* What a frame that has ended agrees with: the same function run alone on the
\* same argument.
AsRunAlone(f) ==
    LET g == Run(Entry(f.op, f.text)) IN
    /\ f.pc = g.pc
    /\ f.ret = g.ret

\* C7: no step of any caller changes the availability flag or the
\* pronunciation map, and whatever the interleaving, a call that has ended
\* ended as the same call run alone ends, whatever the other callers did
\* meanwhile, diagnostics included.
C7_NoSharedMutation ==
    /\ [][/\ _available' = _available
          /\ pronunciation_map' = pronunciation_map]_vars
    /\ [](\A c \in Callers :
              frame[c].pc \in {"done", "error"} => AsRunAlone(frame[c]))

\* C7 happens: caller 1 has a converted text in hand that it began while
\* caller 2 is in the middle of the reassembly of another one.
C7_Witness ==
    /\ Converted(1, "chinese_to_pinyin_with_spaces_and_pronunciation")
    /\ frame[1].text = <<20320, 32, 35831>>
    /\ frame[1].ret = <<110, 105, 32, 116, 115, 105, 110, 103>>
    /\ frame[2].op = "chinese_to_pinyin_with_spaces"
    /\ frame[2].pc = "join"
    /\ frame[2].i = 2

\* The number of characters of t in U+4E00..U+9FFF.
ChineseCount(t) == Cardinality({k \in 1..Len(t) : InCJK(t[k])})

\* C8: get_conversion_info never raises; it reports the number of characters
\* of U+4E00..U+9FFF as chinese_count and the length as total_length, with
\* 0 <= chinese_count <= total_length and has_chinese exactly when
\* chinese_count > 0; the percentage is 0 for the empty text and
\* chinese_count / total_length * 100 otherwise.
C8_ConversionInfo ==
    \A c \in Callers :
        LET f == frame[c] IN
        (f.op = "get_conversion_info") =>
            /\ f.pc = "done"
            /\ f.ret.chinese_count = ChineseCount(f.text)
            /\ f.ret.total_length = Len(f.text)
            /\ 0 <= f.ret.chinese_count
            /\ f.ret.chinese_count <= f.ret.total_length
            /\ f.ret.has_chinese = (f.ret.chinese_count > 0)
            /\ f.ret.chinese_percentage.den # 0
            /\ f.text = <<>> =>
                   /\ f.ret.chinese_percentage.num = 0
                   /\ f.ret.chinese_count = 0
                   /\ f.ret.total_length = 0
            /\ f.text # <<>> =>
                   f.ret.chinese_percentage.num * f.ret.total_length
                       = f.ret.chinese_count * 100 * f.ret.chinese_percentage.den

\* C8 happens: get_conversion_info has returned for the empty text.
C8_Witness ==
    /\ frame[1].op = "get_conversion_info"
    /\ frame[1].pc = "done"
    /\ frame[1].text = <<>>
    /\ frame[1].ret.chinese_percentage.num = 0

\* C9: is_chinese_char always returns, a boolean, true exactly for a code point
\* of U+4E00..U+9FFF: false at U+4DFF, true at U+4E00, true at U+9FA1, true at
\* U+9FFF, false at U+A000; and the call changes nothing but the caller's own
\* frame.
C9_ClassifierRange ==
    /\ [](\A c \in Callers :
              LET f == frame[c] IN
              (f.op = "is_chinese_char") =>
                  /\ f.pc = "done"
                  /\ f.ret \in BOOLEAN
                  /\ f.ret = InCJK(f.text[1])
                  /\ f.text[1] = 19967 => f.ret = FALSE
                  /\ f.text[1] = 19968 => f.ret = TRUE
                  /\ f.text[1] = 40865 => f.ret = TRUE
                  /\ f.text[1] = 40959 => f.ret = TRUE
                  /\ f.text[1] = 40960 => f.ret = FALSE)
    /\ [][\A c \in Callers :
              (frame'[c].op = "is_chinese_char" /\ frame[c].op # "is_chinese_char") =>
                  /\ _available' = _available
                  /\ pronunciation_map' = pronunciation_map
                  /\ \A d \in Callers \ {c} : frame'[d] = frame[d]]_vars

\* C9 happens: is_chinese_char has returned True for U+9FFF.
C9_Witness ==
    /\ frame[1].op = "is_chinese_char"
    /\ frame[1].pc = "done"
    /\ frame[1].text = <<40959>>
    /\ frame[1].ret = TRUE

\* The number of spaces of s.
Spaces(s) == Len(s) - Len(StripSpaces(s))

====
